---- MODULE Spec2Model ----
(***************************************************************************)
(* The moderation-gated batch upload of src/main.py (upload_batch and the  *)
(* two clients it calls), as a state machine over the geo_echoes table.    *)
(*                                                                         *)
(* Two function instances each serve one invocation.  Under a sequential   *)
(* trigger the second invocation starts after the first has returned;      *)
(* under an overlapping trigger the two interleave freely.  geo_echoes is  *)
(* the committed content of the table, the only state the instances share. *)
(* One iteration of the for loop is one step: it reads nothing from the    *)
(* table and makes at most one UPDATE (with its commit), so every order of *)
(* the two instances' writes is still produced.  An instance may die in    *)
(* the loop (Crash).  LiveSpec is the scheduled trigger invoking one        *)
(* instance again and again, with the fairness of that schedule.            *)
(***************************************************************************)
EXTENDS Naturals, Sequences, FiniteSets, TLC

\* ---------------------------------------------------------------- bounds
\* Rows of geo_echoes; echo_id i is the i-th oldest row (created_at order).
NumEchoes == 3
\* The LIMIT of the selection query (50 in the source), scaled down so that
\* a table of NumEchoes rows can exceed it.
BatchLimit == 2

EchoIds == 1..NumEchoes
\* Function instances: each has its own interpreter, hence its own str-hash seed.
Procs == {"p1", "p2"}

Null == "null"
Absent == "absent"
NoResult == [shape |-> "none", is_safe |-> Absent, moderation_status |-> Absent,
             flag_reason |-> Absent, model_used |-> Absent]
NoTx == [kind |-> "none", echo |-> 0, salt |-> Null]
NoRequest == [content |-> Absent, content_type |-> Absent]
\* echo_id of the mock echo of test mode ("test_echo_001")
TestEchoId == 0

VARIABLES
  geo_echoes,      \* the table: echo_id -> row (committed state)
  seed,            \* per instance: the interpreter's str-hash seed
  trigger,         \* how the function is invoked: "sequential" or "overlapping"
  pc,              \* per instance: position in upload_batch
  priority_only,   \* per instance: request argument
  skip_moderation, \* per instance: request argument
  echoes,          \* per instance: cursor.fetchall(), a sequence of echo_ids
  idx,             \* per instance: position of the for loop in echoes
  results,         \* per instance: the results dictionary
  mod_request,     \* per instance: what was passed to call_moderation_agent last
  mod_result,      \* per instance: value call_moderation_agent returned last
  tx_id,           \* per instance: value upload_to_permanent_storage returned last
  response,        \* per instance: the HTTP response being returned
  \* ---- history (observation only; never read by an action's guard or effect)
  agent_reply,     \* per instance: what the moderation service did, last iteration
  put_outcome,     \* per instance: what the storage side did, last iteration
  db_outcome,      \* per instance: what the UPDATE/commit did, last iteration
  events,          \* per instance: the calls and committed writes of this run,
                   \* in the order in which they were made
  denied,          \* per instance: echoes of this run whose moderation call gave
                   \* no verdict or no is_safe = true
  writes,          \* per instance: terminal writes committed per echo in this run
  outcome,         \* per instance: per-record outcome of this run, in order
  terminal,        \* echoes with a committed flagging or upload UPDATE
  seen_terminal,   \* per instance: terminal as it was when this run selected
  last_run,        \* summary of the run that finished most recently
  rerun_of,        \* per instance: last_run if this run started right after it
  last_crash       \* the batch of the invocation that crashed most recently, and
                   \* the invocation that selected next, until that one's first step

vars == <<geo_echoes, seed, trigger, pc, priority_only, skip_moderation, echoes, idx, results,
          mod_request, mod_result, tx_id, response, agent_reply, put_outcome, db_outcome,
          events, denied, writes, outcome, terminal, seen_terminal, last_run, rerun_of,
          last_crash>>

\* ------------------------------------------------------------ pure parts

\* What the moderation service can do on one POST.
\*  raise:    transport failure, timeout, or a body that is not JSON
\*  nondict:  a JSON body that is not an object (a list, a string, null)
\*  dict:     a JSON object; is_safe is true, false, missing, or a value that
\*            is no boolean but is truthy in Python (a non-empty string, 1)
AgentReplies ==
  { [shape |-> "raise", is_safe |-> Absent, moderation_status |-> Absent,
     flag_reason |-> Absent, model_used |-> Absent],
    [shape |-> "nondict", is_safe |-> Absent, moderation_status |-> Absent,
     flag_reason |-> Absent, model_used |-> Absent],
    [shape |-> "dict", is_safe |-> "true", moderation_status |-> "approved",
     flag_reason |-> Absent, model_used |-> "m"],
    [shape |-> "dict", is_safe |-> "false", moderation_status |-> "flagged",
     flag_reason |-> "policy", model_used |-> "m"],
    [shape |-> "dict", is_safe |-> Absent, moderation_status |-> Absent,
     flag_reason |-> Absent, model_used |-> Absent],
    [shape |-> "dict", is_safe |-> "truthy_nonbool", moderation_status |-> Absent,
     flag_reason |-> Absent, model_used |-> Absent] }

FailClosed == [shape |-> "dict", is_safe |-> "false", moderation_status |-> "error",
               flag_reason |-> "Moderation check failed", model_used |-> Absent]

\* call_moderation_agent: response.json() is returned as it is; only an
\* exception inside the try yields the fail-closed dictionary.
call_moderation_agent(reply) ==
  IF reply.shape = "raise" THEN FailClosed ELSE reply

\* Python truthiness of a column value: None and the empty string are falsy.
Truthy(v) == v \notin {Null, ""}

\* Python's a or b
Or(a, b) == IF Truthy(a) THEN a ELSE b

\* Faulty variant: the title is preferred to the content
ModerationRequest_TitleFirst(row) ==
  [content |-> Or(Or(row.title, row.content), ""),
   content_type |-> Or(row.content_type, "text")]

\* content=content or title or "", content_type=content_type or "text"
ModerationRequest(row) ==
  [content |-> Or(Or(row.content, row.title), ""),
   content_type |-> Or(row.content_type, "text")]

\* Python truthiness of mod_result.get("is_safe", False)
IsSafeTruthy(m) == m.is_safe \in {"true", "truthy_nonbool"}

\* mod_result.get("flag_reason", "Pre-Arweave check failed")
FlagReason(m) == IF m.flag_reason = Absent THEN "Pre-Arweave check failed" ELSE m.flag_reason

\* What the storage side can do on one put.
\*  nokey:   FOUREVERLAND_SECRET_KEY is not set
\*  failed:  the S3 client raised (backend rejects, unreachable)
\*  cid:     head_object gives an IPFS CID (Qm..., bafy...)
\*  etag:    head_object gives no CID, only an ETag
StorageOutcomes == {"nokey", "failed", "cid", "etag"}

\* upload_to_permanent_storage: always returns a string.  The payload's
\* digest is determined by the envelope, i.e. by the echo and by the
\* instance's hash seed (user_id_hash), or by utcnow for the mock echo.
upload_to_permanent_storage(echo, salt, o) ==
  IF o \in {"nokey", "failed"} THEN [kind |-> "ipfs_pending", echo |-> echo, salt |-> salt]
  ELSE IF o = "cid" THEN [kind |-> "cid", echo |-> echo, salt |-> salt]
  ELSE [kind |-> "4ever", echo |-> echo, salt |-> salt]

\* Faulty variant: the selection without AND arweave_tx_id IS NULL
IsCandidate_IgnoresTxId(row, prio) ==
  /\ row.is_permanent
  /\ row.is_active
  /\ (prio => row.echo_type = "admin")

\* WHERE is_permanent = TRUE AND arweave_tx_id IS NULL AND is_active = TRUE
\* [AND echo_type = 'admin']
IsCandidate(row, prio) ==
  /\ row.is_permanent
  /\ row.arweave_tx_id = NoTx
  /\ row.is_active
  /\ (prio => row.echo_type = "admin")

RECURSIVE OrderedFrom_NewestFirst(_, _)
\* Faulty variant: ORDER BY created_at DESC
OrderedFrom_NewestFirst(i, S) ==
  IF i > NumEchoes THEN <<>>
  ELSE IF i \in S THEN OrderedFrom_NewestFirst(i + 1, S) \o <<i>>
  ELSE OrderedFrom_NewestFirst(i + 1, S)

RECURSIVE OrderedFrom(_, _)
\* the echo_ids of S that are >= i, ascending (ORDER BY created_at ASC)
OrderedFrom(i, S) ==
  IF i > NumEchoes THEN <<>>
  ELSE IF i \in S THEN <<i>> \o OrderedFrom(i + 1, S)
  ELSE OrderedFrom(i + 1, S)

\* Faulty variant: the query without its LIMIT
SelectCandidates_NoLimit(table, prio) ==
  OrderedFrom(1, {e \in EchoIds : IsCandidate(table[e], prio)})

\* ... ORDER BY created_at ASC LIMIT 50
SelectCandidates(table, prio) ==
  LET all == OrderedFrom(1, {e \in EchoIds : IsCandidate(table[e], prio)})
  IN  IF Len(all) > BatchLimit THEN SubSeq(all, 1, BatchLimit) ELSE all

EmptyResults == [processed |-> 0, uploaded |-> 0, failed |-> 0, flagged |-> 0,
                 tx_ids |-> <<>>, moderation_results |-> <<>>]

NoResponse == [kind |-> "none", status |-> 0, body |-> EmptyResults]

NoRun == [fresh |-> FALSE, failed |-> 0, n |-> 0, priority_only |-> FALSE]

NoCrash == [fresh |-> FALSE, batch |-> {}, priority_only |-> FALSE, next |-> "none"]

\* ------------------------------------------------------------------ Init

\* A row as the authoring flow and the eligibility switch leave it: the
\* upload and moderation columns are unset.  The pipeline never writes
\* content, title or content_type, so the values a run fetched are the
\* values of the table.
FreshRow(perm, active, type) ==
  [is_permanent |-> perm, is_active |-> active, echo_type |-> type,
   content |-> "Hello", title |-> Null, content_type |-> "text",
   arweave_tx_id |-> NoTx, arweave_uploaded_at |-> Null,
   moderation_status |-> Null, moderation_reason |-> Null]

\* Three tables.  Alternating: every row pending, user and admin echoes in
\* turn.  Cycle: pending admin, soft-deleted, not yet permanent, pending user.
\* OnePending: only the oldest row is pending.
AlternatingTable ==
  [e \in EchoIds |-> FreshRow(TRUE, TRUE, IF e % 2 = 0 THEN "admin" ELSE "user")]

CycleTable ==
  [e \in EchoIds |->
     CASE e % 4 = 1 -> FreshRow(TRUE, TRUE, "admin")
       [] e % 4 = 2 -> FreshRow(TRUE, FALSE, "admin")
       [] e % 4 = 3 -> FreshRow(FALSE, TRUE, "user")
       [] OTHER     -> FreshRow(TRUE, TRUE, "user")]

OnePendingTable ==
  [e \in EchoIds |-> IF e = 1 THEN FreshRow(TRUE, TRUE, "admin")
                               ELSE FreshRow(FALSE, TRUE, "user")]

\* Values of the text columns: unset, empty, set.
Contents == {Null, "", "Hello"}
Titles == {Null, "", "A title"}
ContentTypes == {Null, "", "image"}

\* Tables whose one pending row has any of these texts.
TextTables ==
  { [e \in EchoIds |->
       IF e = 1 THEN [FreshRow(TRUE, TRUE, "admin") EXCEPT
                        !.content = c, !.title = t, !.content_type = ct]
                ELSE FreshRow(FALSE, TRUE, "user")] :
    c \in Contents, t \in Titles, ct \in ContentTypes }

\* hash(str(user_id)) is salted per interpreter.  Two instances have two
\* seeds, or the same one (a warm instance serving the next request, or
\* PYTHONHASHSEED pinned).
Seeds == {"s1", "s2"}

\* The invocations follow one another over the first two tables and over
\* the text tables; they may overlap over the third, where they contend for
\* one row.  The second instance's seed is the first's or another one,
\* except over the largest table, where it is another one, and over the
\* text tables, where it is the same.
Scenarios ==
  { <<AlternatingTable, "sequential", {"s2"}>>, <<CycleTable, "sequential", Seeds>>,
    <<OnePendingTable, "overlapping", Seeds>> }
  \cup { <<tbl, "sequential", {"s1"}>> : tbl \in TextTables }

ZeroWrites == [e \in EchoIds |-> 0]

Init ==
  /\ \E sc \in Scenarios :
       /\ geo_echoes = sc[1]
       /\ trigger = sc[2]
       /\ \E s2 \in sc[3] : seed = [p \in Procs |-> IF p = "p1" THEN "s1" ELSE s2]
  /\ pc = [p \in Procs |-> "idle"]
  /\ priority_only = [p \in Procs |-> FALSE]
  /\ skip_moderation = [p \in Procs |-> FALSE]
  /\ echoes = [p \in Procs |-> <<>>]
  /\ idx = [p \in Procs |-> 1]
  /\ results = [p \in Procs |-> EmptyResults]
  /\ mod_request = [p \in Procs |-> NoRequest]
  /\ mod_result = [p \in Procs |-> NoResult]
  /\ tx_id = [p \in Procs |-> NoTx]
  /\ response = [p \in Procs |-> NoResponse]
  /\ agent_reply = [p \in Procs |-> NoResult]
  /\ put_outcome = [p \in Procs |-> "none"]
  /\ db_outcome = [p \in Procs |-> "none"]
  /\ events = [p \in Procs |-> <<>>]
  /\ denied = [p \in Procs |-> {}]
  /\ writes = [p \in Procs |-> ZeroWrites]
  /\ outcome = [p \in Procs |-> <<>>]
  /\ terminal = {}
  /\ seen_terminal = [p \in Procs |-> {}]
  /\ last_run = NoRun
  /\ rerun_of = [p \in Procs |-> NoRun]
  /\ last_crash = NoCrash

\* ---------------------------------------------------------------- actions

\* An invocation may start while another is under way only if the trigger
\* overlaps.
MayStart(p) ==
  \/ trigger = "overlapping"
  \/ \A q \in Procs \ {p} : pc[q] \in {"idle", "exited"}

\* The request arguments are parsed (an argument the taken branch never
\* reads is not kept) and the per-run locals start afresh.
StartRun(p, prio, skip) ==
  /\ priority_only' = [priority_only EXCEPT ![p] = prio]
  /\ skip_moderation' = [skip_moderation EXCEPT ![p] = skip]
  /\ idx' = [idx EXCEPT ![p] = 1]
  /\ results' = [results EXCEPT ![p] = EmptyResults]
  /\ UNCHANGED <<mod_request, mod_result, tx_id, agent_reply, db_outcome, events,
                 denied, writes, outcome>>

\* Faulty variant: the test-mode body without the identifier in tx_ids
MockSummary_NoId(t) == [EmptyResults EXCEPT !.processed = 1, !.uploaded = 1]

\* The body of the test-mode response: processed 1, uploaded 1, failed 0,
\* flagged 0, tx_ids [tx_id].
MockSummary(t) ==
  [EmptyResults EXCEPT !.processed = 1, !.uploaded = 1, !.tx_ids = <<t>>]

\* test_mode=true: the mock echo is uploaded and the response returned;
\* no database connection is made.
TestMode(p) ==
  /\ pc[p] = "idle"
  /\ MayStart(p)
  /\ \E skip \in BOOLEAN : StartRun(p, FALSE, skip)
  /\ \E o \in StorageOutcomes :
       LET t == upload_to_permanent_storage(TestEchoId, "utcnow", o)
       IN  /\ put_outcome' = [put_outcome EXCEPT ![p] = o]
           /\ response' = [response EXCEPT ![p] =
                [kind |-> "test", status |-> 200, body |-> MockSummary(t)]]
  /\ pc' = [pc EXCEPT ![p] = "done"]
  /\ UNCHANGED <<geo_echoes, seed, trigger, echoes, terminal, seen_terminal, last_run,
                 rerun_of, last_crash>>

\* Faulty variant: the connection failure answered with status 200
ConnectError_Ok == [kind |-> "error", status |-> 200, body |-> EmptyResults]

\* {"error": "Database connection failed: ...", "instance": ...}, 500: a
\* top-level error object, no counters.
ConnectError == [kind |-> "error", status |-> 500, body |-> EmptyResults]

\* {"error": str(e)}, 500: the response of the outer except.
QueryError == [kind |-> "query_error", status |-> 500, body |-> EmptyResults]

\* get_db_connection() or conn.cursor() raises: the 500 response.
DbConnectFailed(p) ==
  /\ pc[p] = "idle"
  /\ MayStart(p)
  /\ StartRun(p, FALSE, FALSE)
  /\ response' = [response EXCEPT ![p] = ConnectError]
  /\ pc' = [pc EXCEPT ![p] = "done"]
  /\ UNCHANGED <<geo_echoes, seed, trigger, echoes, put_outcome, terminal, seen_terminal,
                 last_run, rerun_of, last_crash>>

\* The connection is made but cursor.execute(query) raises (the store went
\* away, the statement is refused): the outer except answers 500 before
\* any record is fetched.
QueryFailed(p) ==
  /\ pc[p] = "idle"
  /\ MayStart(p)
  /\ StartRun(p, FALSE, FALSE)
  /\ response' = [response EXCEPT ![p] = QueryError]
  /\ pc' = [pc EXCEPT ![p] = "done"]
  /\ UNCHANGED <<geo_echoes, seed, trigger, echoes, put_outcome, terminal, seen_terminal,
                 last_run, rerun_of, last_crash>>

\* Production mode: connect, run the selection query, zero the results.
SelectEchoes(p) ==
  /\ pc[p] = "idle"
  /\ MayStart(p)
  /\ \E prio \in BOOLEAN, skip \in BOOLEAN :
       /\ StartRun(p, prio, skip)
       /\ echoes' = [echoes EXCEPT ![p] = SelectCandidates(geo_echoes, prio)]
  /\ pc' = [pc EXCEPT ![p] = "loop"]
  /\ seen_terminal' = [seen_terminal EXCEPT ![p] = terminal]
  /\ rerun_of' = [rerun_of EXCEPT ![p] = last_run]
  /\ last_run' = NoRun
  /\ last_crash' = IF last_crash.fresh /\ last_crash.next = "none"
                     THEN [last_crash EXCEPT !.next = p] ELSE last_crash
  /\ UNCHANGED <<geo_echoes, seed, trigger, response, put_outcome, terminal>>

\* Which way one iteration goes after the moderation block (lines 266-293):
\* mod_result.get raises on a value that is no dictionary; a falsy is_safe
\* takes the flagging branch; everything else reaches the upload.
Gate(skip, m) ==
  IF skip THEN "upload"
  ELSE IF m.shape # "dict" THEN "raise"
  ELSE IF IsSafeTruthy(m) THEN "upload"
  ELSE "flag"

\* Faulty variant: the entry with the mock echo's id, not the record's
Entry_NoEchoId(e, m) ==
  [echo_id |-> TestEchoId, is_safe |-> m.is_safe, status |-> m.moderation_status,
   model |-> m.model_used]

\* The entry appended to results["moderation_results"].
Entry(e, m) ==
  [echo_id |-> e, is_safe |-> m.is_safe, status |-> m.moderation_status,
   model |-> m.model_used]

\* Faulty variant: the flagging UPDATE without is_permanent = FALSE
FlagRow_KeepsPermanent(row, reason) ==
  [row EXCEPT !.moderation_status = "flagged", !.moderation_reason = reason]

\* UPDATE geo_echoes SET moderation_status = 'flagged', moderation_reason = %s,
\* is_permanent = FALSE WHERE echo_id = %s
FlagRow(row, reason) ==
  [row EXCEPT !.moderation_status = "flagged", !.moderation_reason = reason,
              !.is_permanent = FALSE]

\* Faulty variant: the upload UPDATE without arweave_tx_id = %s
UploadedRow_NoTxId(row, t) ==
  [row EXCEPT !.arweave_uploaded_at = "now", !.moderation_status = "approved"]

\* Faulty variant: the upload written in two statements, the status later
UploadedRow_StatusLater(row, t) ==
  [row EXCEPT !.arweave_tx_id = t, !.arweave_uploaded_at = "now"]

\* UPDATE geo_echoes SET arweave_tx_id = %s, arweave_uploaded_at = NOW(),
\* moderation_status = 'approved' WHERE echo_id = %s
UploadedRow(row, t) ==
  [row EXCEPT !.arweave_tx_id = t, !.arweave_uploaded_at = "now",
              !.moderation_status = "approved"]

\* Faulty variant: the except block without results["failed"] += 1
OnRecordException_NoCount(res) == res

\* except Exception as e: results["failed"] += 1
OnRecordException(res) == [res EXCEPT !.failed = @ + 1]

\* Faulty variant: the exception leaves the loop
AfterException_Break(i, n) == n + 1

\* ... and the for loop goes on with the next echo (i: this echo's position,
\* n: the length of echoes).
AfterException(i, n) == i + 1

\* Faulty variant: the put is made before the moderation call
IterationEvents_PutFirst(e, skip, path, db) ==
  (IF path = "upload" THEN <<[ev |-> "put", echo |-> e]>> ELSE <<>>)
  \o (IF skip THEN <<>> ELSE <<[ev |-> "moderate", echo |-> e]>>)
  \o (IF path # "raise" /\ db = "ok" THEN <<[ev |-> "write", echo |-> e]>> ELSE <<>>)

\* What one iteration does to the outside, in the order of its statements:
\* call_moderation_agent (line 267) unless skip_moderation; then, past the
\* gate, upload_to_permanent_storage (line 316); then the UPDATE of the
\* branch taken with its commit (lines 283-291 or 319-327), which counts
\* when it did not raise.
IterationEvents(e, skip, path, db) ==
  (IF skip THEN <<>> ELSE <<[ev |-> "moderate", echo |-> e]>>)
  \o (IF path = "upload" THEN <<[ev |-> "put", echo |-> e]>> ELSE <<>>)
  \o (IF path # "raise" /\ db = "ok" THEN <<[ev |-> "write", echo |-> e]>> ELSE <<>>)

\* The UPDATE or its commit may raise (the model lets a later UPDATE of the
\* same connection succeed again, a superset of what the driver does).
DbOutcomes == {"ok", "error"}

\* One iteration of the for loop over echoes, lines 259-335.  The inputs
\* are what the moderation service, the storage side and the database do,
\* each drawn only where the iteration gets that far.
ProcessEcho(p) ==
  /\ pc[p] = "loop"
  /\ idx[p] <= Len(echoes[p])
  /\ LET e == echoes[p][idx[p]]
         skip == skip_moderation[p]
         counted == [results[p] EXCEPT !.processed = @ + 1]
     IN \E reply \in (IF skip THEN {NoResult} ELSE AgentReplies) :
        LET m == IF skip THEN mod_result[p] ELSE call_moderation_agent(reply)
            path == Gate(skip, m)
            logged == IF skip \/ path = "raise" THEN counted
                      ELSE [counted EXCEPT !.moderation_results =
                                             Append(@, Entry(e, m))]
        IN \E o \in (IF path = "upload" THEN StorageOutcomes ELSE {"none"}),
              db \in (IF path = "raise" THEN {"none"} ELSE DbOutcomes) :
           LET t == IF path = "upload"
                      THEN upload_to_permanent_storage(e, seed[p], o)
                      ELSE tx_id[p]
           IN  /\ mod_request' = [mod_request EXCEPT ![p] =
                    IF skip THEN @ ELSE ModerationRequest(geo_echoes[e])]
               /\ agent_reply' = [agent_reply EXCEPT ![p] = reply]
               /\ mod_result' = [mod_result EXCEPT ![p] = m]
               /\ tx_id' = [tx_id EXCEPT ![p] = t]
               /\ put_outcome' = [put_outcome EXCEPT ![p] = o]
               /\ db_outcome' = [db_outcome EXCEPT ![p] = db]
               /\ events' = [events EXCEPT ![p] =
                    @ \o IterationEvents(e, skip, path, db)]
               /\ denied' = [denied EXCEPT ![p] =
                    IF skip \/ (reply.shape = "dict" /\ reply.is_safe = "true")
                      THEN @ ELSE @ \cup {e}]
               /\ IF db = "ok"
                    THEN /\ geo_echoes' = [geo_echoes EXCEPT ![e] =
                              IF path = "flag" THEN FlagRow(@, FlagReason(m))
                                               ELSE UploadedRow(@, t)]
                         /\ results' = [results EXCEPT ![p] =
                              IF path = "flag"
                                THEN [logged EXCEPT !.flagged = @ + 1]
                                ELSE [logged EXCEPT !.uploaded = @ + 1,
                                                    !.tx_ids = Append(@, t)]]
                         /\ outcome' = [outcome EXCEPT ![p] =
                              Append(@, IF path = "flag" THEN "flagged"
                                                         ELSE "uploaded")]
                         /\ idx' = [idx EXCEPT ![p] = @ + 1]
                         /\ writes' = [writes EXCEPT ![p][e] = @ + 1]
                         /\ terminal' = terminal \cup {e}
                         /\ last_run' = NoRun
                    ELSE /\ results' = [results EXCEPT ![p] =
                              OnRecordException(logged)]
                         /\ outcome' = [outcome EXCEPT ![p] = Append(@, "failed")]
                         /\ idx' = [idx EXCEPT ![p] =
                              AfterException(@, Len(echoes[p]))]
                         /\ UNCHANGED <<geo_echoes, writes, terminal, last_run>>
  /\ last_crash' = IF last_crash.next = p THEN NoCrash ELSE last_crash
  /\ UNCHANGED <<seed, trigger, pc, priority_only, skip_moderation, echoes,
                 response, seen_terminal, rerun_of>>

\* After the loop: cursor.close(), conn.close(), jsonify(results), 200.
Finish(p) ==
  /\ pc[p] = "loop"
  /\ idx[p] > Len(echoes[p])
  /\ response' = [response EXCEPT ![p] =
       [kind |-> "summary", status |-> 200, body |-> results[p]]]
  /\ pc' = [pc EXCEPT ![p] = "done"]
  /\ last_run' = [fresh |-> TRUE, failed |-> results[p].failed,
                  n |-> Len(echoes[p]), priority_only |-> priority_only[p]]
  /\ mod_request' = [mod_request EXCEPT ![p] = NoRequest]
  /\ mod_result' = [mod_result EXCEPT ![p] = NoResult]
  /\ tx_id' = [tx_id EXCEPT ![p] = NoTx]
  /\ agent_reply' = [agent_reply EXCEPT ![p] = NoResult]
  /\ put_outcome' = [put_outcome EXCEPT ![p] = "none"]
  /\ db_outcome' = [db_outcome EXCEPT ![p] = "none"]
  /\ last_crash' = IF last_crash.next = p THEN NoCrash ELSE last_crash
  /\ UNCHANGED <<geo_echoes, seed, trigger, priority_only, skip_moderation,
                 echoes, idx, results, events, denied, writes, outcome, terminal,
                 seen_terminal, rerun_of>>

\* The invocation ends: its locals are gone.
Exit(p) ==
  /\ pc' = [pc EXCEPT ![p] = "exited"]
  /\ response' = [response EXCEPT ![p] = NoResponse]
  /\ echoes' = [echoes EXCEPT ![p] = <<>>]
  /\ idx' = [idx EXCEPT ![p] = 1]
  /\ results' = [results EXCEPT ![p] = EmptyResults]
  /\ mod_request' = [mod_request EXCEPT ![p] = NoRequest]
  /\ mod_result' = [mod_result EXCEPT ![p] = NoResult]
  /\ tx_id' = [tx_id EXCEPT ![p] = NoTx]
  /\ agent_reply' = [agent_reply EXCEPT ![p] = NoResult]
  /\ put_outcome' = [put_outcome EXCEPT ![p] = "none"]
  /\ db_outcome' = [db_outcome EXCEPT ![p] = "none"]
  /\ events' = [events EXCEPT ![p] = <<>>]
  /\ denied' = [denied EXCEPT ![p] = {}]
  /\ writes' = [writes EXCEPT ![p] = ZeroWrites]
  /\ outcome' = [outcome EXCEPT ![p] = <<>>]
  /\ seen_terminal' = [seen_terminal EXCEPT ![p] = {}]
  /\ rerun_of' = [rerun_of EXCEPT ![p] = NoRun]
  /\ priority_only' = [priority_only EXCEPT ![p] = FALSE]
  /\ skip_moderation' = [skip_moderation EXCEPT ![p] = FALSE]
  /\ UNCHANGED <<geo_echoes, seed, trigger, terminal, last_run>>

\* The response is sent.
Return(p) ==
  /\ pc[p] = "done"
  /\ Exit(p)
  /\ UNCHANGED last_crash

\* The instance dies in the loop (killed at the function's timeout, out of
\* memory): no response, the connection is dropped.  Every UPDATE is one
\* statement followed by its commit, so a crash inside an iteration leaves
\* the table as it was before the iteration (the open transaction is rolled
\* back) or as it is after it.
Crash(p) ==
  /\ pc[p] = "loop"
  /\ Exit(p)
  /\ last_crash' = [fresh |-> TRUE, batch |-> {echoes[p][i] : i \in 1..Len(echoes[p])},
                    priority_only |-> priority_only[p], next |-> "none"]

Next ==
  \E p \in Procs :
    \/ TestMode(p)
    \/ DbConnectFailed(p)
    \/ QueryFailed(p)
    \/ SelectEchoes(p)
    \/ ProcessEcho(p)
    \/ Finish(p)
    \/ Return(p)
    \/ Crash(p)

Spec == Init /\ [][Next]_vars

\* ------------------------------------------------- repeated invocations

\* The instance that the scheduled trigger keeps invoking.
Scheduled == {"p1"}

\* A warm instance takes the next request.
Reinvoke(p) ==
  /\ pc[p] = "exited"
  /\ pc' = [pc EXCEPT ![p] = "idle"]
  /\ UNCHANGED <<geo_echoes, seed, trigger, priority_only, skip_moderation, echoes, idx,
                 results, mod_request, mod_result, tx_id, response, agent_reply,
                 put_outcome, db_outcome, events, denied, writes, outcome, terminal,
                 seen_terminal, last_run, rerun_of, last_crash>>

\* The scheduled request carries no arguments: priority_only and
\* skip_moderation take their defaults.
ScheduledRun(p) ==
  /\ SelectEchoes(p)
  /\ ~priority_only'[p]
  /\ ~skip_moderation'[p]

\* One iteration of a scheduled run.  The moderation service and the
\* database answer as they may; of the storage side the repeated runs keep
\* one answer, the put that succeeds with a CID (which identifier is
\* written makes no difference to what is selected next).
ScheduledStep(p) ==
  /\ ProcessEcho(p)
  /\ put_outcome'[p] \in {"none", "cid"}

LiveNext ==
  \E p \in Scheduled :
    \/ DbConnectFailed(p)
    \/ ScheduledRun(p)
    \/ ScheduledStep(p)
    \/ Finish(p)
    \/ Return(p)
    \/ Reinvoke(p)

\* The trigger keeps firing, the table is reachable again and again, and a
\* started run goes on record by record until it returns.  Nothing is
\* assumed about what the moderation service, the storage side or an UPDATE
\* answer.
LiveFairness ==
  \A p \in Scheduled :
    /\ SF_vars(ScheduledRun(p))
    /\ WF_vars(ScheduledStep(p))
    /\ WF_vars(Finish(p))
    /\ WF_vars(Return(p))
    /\ WF_vars(Reinvoke(p))

LiveSpec == Init /\ [][LiveNext]_vars /\ LiveFairness

\* ----------------------------------------------------------------- claims

\* The set of elements of a sequence.
Range(seq) == {seq[i] : i \in 1..Len(seq)}

\* The outcome this run recorded for echo e of its batch.
OutcomeOf(p, e) ==
  {outcome[p][i] : i \in {j \in 1..Len(outcome[p]) : j <= Len(echoes[p]) /\ echoes[p][j] = e}}

\* The echo of the iteration that ended last.
LastEcho(p) == echoes[p][idx[p] - 1]

\* C1: with skip_moderation false, test mode included, every storage put of
\* an invocation comes after a moderation verdict, obtained in that
\* invocation for that record, with is_safe = true.
C1_UploadOnlyAfterSafeVerdict ==
  \A p \in Procs :
    (put_outcome[p] # "none" /\ ~skip_moderation[p]) =>
       /\ agent_reply[p].shape = "dict"
       /\ agent_reply[p].is_safe = "true"
       /\ mod_result[p].is_safe = "true"

\* C2: when a run with moderation has returned, every record whose verdict
\* was unavailable or unsafe has arweave_tx_id null, is_permanent false and
\* moderation_status flagged, was counted flagged, and is no candidate.
C2_DeniedRecordsFlagged ==
  \A p \in Procs :
    pc[p] = "done" =>
      \A e \in denied[p] :
        /\ geo_echoes[e].arweave_tx_id = NoTx
        /\ ~geo_echoes[e].is_permanent
        /\ geo_echoes[e].moderation_status = "flagged"
        /\ OutcomeOf(p, e) = {"flagged"}
        /\ ~IsCandidate(geo_echoes[e], FALSE)

\* C3: for a transport failure, a timeout or a malformed response the
\* moderation client returns the fail-closed verdict (is_safe false, status
\* error, reason "Moderation check failed"), and it returns is_safe = true
\* only if the service answered is_safe = true.
C3_ModerationClientFailsClosed ==
  \A p \in Procs :
    agent_reply[p].shape # "none" =>
      /\ (agent_reply[p].shape \in {"raise", "nondict"}
            \/ agent_reply[p].is_safe \notin {"true", "false"})
           => mod_result[p] = FailClosed
      /\ mod_result[p].is_safe = "true" => agent_reply[p].is_safe = "true"

\* C4: after a record whose storage put failed (backend rejects or is
\* unreachable, or no credentials) the record counts as failed, no
\* markUploaded was made, tx_ids did not grow by its identifier and the row
\* is unchanged, still a candidate.
C4_FailedPutLeavesRecord ==
  \A p \in Procs :
    (pc[p] = "loop" /\ put_outcome[p] \in {"failed", "nokey"}) =>
       /\ outcome[p][Len(outcome[p])] = "failed"
       /\ writes[p][LastEcho(p)] = 0
       /\ tx_id[p] \notin Range(results[p].tx_ids)
       /\ geo_echoes[LastEcho(p)].arweave_tx_id = NoTx
       /\ IsCandidate(geo_echoes[LastEcho(p)], priority_only[p])

\* C5: in every reachable state of the table, runs sequential or
\* overlapping, a row has moderation_status approved if and only if its
\* arweave_tx_id is non-null.
C5_ApprovedIffTxId ==
  \A e \in EchoIds :
    (geo_echoes[e].moderation_status = "approved") <=>
       (geo_echoes[e].arweave_tx_id # NoTx)

\* C6: every flagged row has is_permanent false (and a reason): the flagging
\* write sets the three columns together, so no flagged row is a candidate.
C6_FlaggedNotPermanent ==
  \A e \in EchoIds :
    geo_echoes[e].moderation_status = "flagged" =>
       /\ ~geo_echoes[e].is_permanent
       /\ geo_echoes[e].moderation_reason # Null
       /\ \A prio \in BOOLEAN : ~IsCandidate(geo_echoes[e], prio)

\* C6, witness: a row that was pending has been flagged.
C6_Witness ==
  \E e \in EchoIds :
    /\ geo_echoes[e].moderation_status = "flagged"
    /\ geo_echoes[e].is_active
    /\ e \in terminal

\* C7: within one run every record gets at most one terminal write, and a
\* record whose terminal write was committed before a run selected is not in
\* that run's batch.
C7_OneTerminalWrite ==
  \A p \in Procs :
    /\ \A e \in EchoIds : writes[p][e] <= 1
    /\ Range(echoes[p]) \cap seen_terminal[p] = {}

\* C7, witness: a run that selected after a terminal write was committed,
\* and committed a terminal write of its own.
C7_Witness ==
  \E p \in Procs :
    /\ seen_terminal[p] # {}
    /\ \E e \in EchoIds : writes[p][e] = 1

\* C8: between records and in every summary returned,
\* processed = uploaded + flagged + failed.
C8_CountersReconcile ==
  \A p \in Procs :
    /\ pc[p] = "loop" =>
         results[p].processed =
           results[p].uploaded + results[p].flagged + results[p].failed
    /\ response[p].kind \in {"summary", "test"} =>
         response[p].body.processed =
           response[p].body.uploaded + response[p].body.flagged
             + response[p].body.failed

\* C8, witness: a summary with a failed record and a record that did not fail.
C8_Witness ==
  \E p \in Procs :
    /\ response[p].kind = "summary"
    /\ response[p].body.failed >= 1
    /\ response[p].body.uploaded + response[p].body.flagged >= 1

\* C9: a run that selected a batch is never aborted by a record's failure:
\* every record before the loop position has one of the three outcomes, and
\* the run returns a summary, not an error, with processed equal to the
\* number of selected records.
C9_BatchNeverAborted ==
  \A p \in Procs :
    /\ pc[p] = "loop" =>
         /\ idx[p] <= Len(echoes[p]) + 1
         /\ Len(outcome[p]) = idx[p] - 1
         /\ results[p].processed = idx[p] - 1
    /\ Range(outcome[p]) \subseteq {"uploaded", "flagged", "failed"}
    /\ (pc[p] = "done" /\ Len(echoes[p]) > 0) =>
         /\ response[p].kind = "summary"
         /\ response[p].status = 200
         /\ response[p].body.processed = Len(echoes[p])
         /\ Len(outcome[p]) = Len(echoes[p])

\* C9, witness: a run returned its summary after a batch whose first record
\* failed and whose second record was processed to another outcome.
C9_Witness ==
  \E p \in Procs :
    /\ pc[p] = "done"
    /\ response[p].kind = "summary"
    /\ Len(outcome[p]) >= 2
    /\ outcome[p][1] = "failed"
    /\ outcome[p][2] \in {"uploaded", "flagged"}

\* C10 (as stated): a run started right after a run has finished, with the
\* same priority_only and no write to the table in between, selects no
\* candidate and processes nothing.
C10_RerunSelectsNothing ==
  \A p \in Procs :
    (rerun_of[p].fresh /\ rerun_of[p].priority_only = priority_only[p]) =>
       /\ Len(echoes[p]) = 0
       /\ results[p].processed = 0

\* C10 (amended): if the finished run had failed = 0 and selected fewer
\* records than the LIMIT, the run started right after it with the same
\* priority_only selects no candidate, writes nothing, and returns
\* processed = uploaded = flagged = failed = 0.
C10_CleanRerunSelectsNothing ==
  \A p \in Procs :
    ( /\ rerun_of[p].fresh
      /\ rerun_of[p].priority_only = priority_only[p]
      /\ rerun_of[p].failed = 0
      /\ rerun_of[p].n < BatchLimit ) =>
       /\ Len(echoes[p]) = 0
       /\ results[p] = EmptyResults
       /\ writes[p] = ZeroWrites
       /\ pc[p] = "done" => response[p] =
            [kind |-> "summary", status |-> 200, body |-> EmptyResults]

\* C10, witness: such a rerun has returned, after a run that processed a record.
C10_Witness ==
  \E p \in Procs :
    /\ rerun_of[p].fresh
    /\ rerun_of[p].priority_only = priority_only[p]
    /\ rerun_of[p].failed = 0
    /\ rerun_of[p].n < BatchLimit
    /\ rerun_of[p].n > 0
    /\ pc[p] = "done"
    /\ response[p].kind = "summary"

\* C11: a test-mode invocation puts exactly one synthetic record through the
\* storage upload, fetches nothing from the table and writes nothing to it,
\* and answers 200 with processed = 1, uploaded = 1, failed = 0, flagged = 0
\* and exactly one identifier, that of the mock echo, in tx_ids.
C11_TestModeOneRecord ==
  \A p \in Procs :
    response[p].kind = "test" =>
       /\ response[p].status = 200
       /\ response[p].body.processed = 1
       /\ response[p].body.uploaded = 1
       /\ response[p].body.failed = 0
       /\ response[p].body.flagged = 0
       /\ Len(response[p].body.tx_ids) = 1
       /\ response[p].body.tx_ids[1].echo = TestEchoId
       /\ put_outcome[p] \in StorageOutcomes
       /\ echoes[p] = <<>>
       /\ writes[p] = ZeroWrites
       /\ outcome[p] = <<>>
       /\ agent_reply[p] = NoResult

\* C11, witness: a test-mode invocation has answered while the table has
\* pending rows.
C11_Witness ==
  \E p \in Procs :
    /\ response[p].kind = "test"
    /\ put_outcome[p] = "cid"
    /\ \E e \in EchoIds : IsCandidate(geo_echoes[e], FALSE)

\* C12: a run that cannot reach the table at its start makes no moderation
\* call, no storage put and no write for any record, and answers with a
\* top-level error and status 500, not with a summary.
C12_SetupFailureTouchesNothing ==
  \A p \in Procs :
    response[p].kind \in {"error", "query_error"} =>
       /\ response[p].status = 500
       /\ response[p].body = EmptyResults
       /\ agent_reply[p] = NoResult
       /\ mod_result[p] = NoResult
       /\ put_outcome[p] = "none"
       /\ tx_id[p] = NoTx
       /\ echoes[p] = <<>>
       /\ outcome[p] = <<>>
       /\ writes[p] = ZeroWrites

\* C12, witness: a run failed to connect while rows were pending, after an
\* earlier run had committed a terminal write.
C12_Witness ==
  \E p \in Procs :
    /\ response[p].kind = "error"
    /\ terminal # {}
    /\ \E e \in EchoIds : IsCandidate(geo_echoes[e], FALSE)

\* C13: the selection of a run returns rows that satisfy is_permanent,
\* arweave_tx_id null and is_active (and echo_type admin under
\* priority_only), oldest first, and leaves a candidate out only when the
\* batch is full and the candidate is newer than every selected row; the
\* loop then handles the batch one position after the other, and what an
\* iteration touches is the row at the loop's position.
C13_SelectionOldestFirst ==
  [][\A p \in Procs :
       /\ (pc[p] = "idle" /\ pc'[p] = "loop") =>
            LET b == echoes'[p]
                cand == {e \in EchoIds : /\ geo_echoes[e].is_permanent
                                         /\ geo_echoes[e].arweave_tx_id = NoTx
                                         /\ geo_echoes[e].is_active
                                         /\ (priority_only'[p] =>
                                               geo_echoes[e].echo_type = "admin")}
            IN  /\ \A i, j \in 1..Len(b) : i < j => b[i] < b[j]
                /\ Range(b) \subseteq cand
                /\ Len(b) <= BatchLimit
                /\ \A c \in cand \ Range(b) :
                     /\ Len(b) = BatchLimit
                     /\ \A i \in 1..Len(b) : b[i] < c
       /\ (pc[p] = "loop" /\ pc'[p] = "loop" /\ idx'[p] # idx[p]) =>
            /\ idx'[p] = idx[p] + 1
            /\ echoes'[p] = echoes[p]
            /\ Len(outcome'[p]) = Len(outcome[p]) + 1
            /\ \A e \in EchoIds :
                 ( \/ geo_echoes'[e] # geo_echoes[e]
                   \/ writes'[p][e] # writes[p][e]
                   \/ e \in denied'[p] \ denied[p] ) => e = echoes[p][idx[p]]
  ]_vars

\* C13, witness: a run has handled a full batch while a newer candidate was
\* left out of it.
C13_Witness ==
  \E p \in Procs :
    /\ pc[p] = "loop"
    /\ Len(echoes[p]) = BatchLimit
    /\ idx[p] > BatchLimit
    /\ \E c \in EchoIds \ Range(echoes[p]) :
         /\ IsCandidate(geo_echoes[c], priority_only[p])
         /\ \A i \in 1..Len(echoes[p]) : echoes[p][i] < c

\* C14: the content passed to the moderation client is the row's content
\* when that is non-empty, else the row's title when that is non-empty, else
\* the empty string; the content_type passed is 'text' when the row's is
\* unset, and the row's own when it has one.
C14_ModerationContent ==
  \A p \in Procs :
    (pc[p] = "loop" /\ idx[p] > 1 /\ ~skip_moderation[p]) =>
       LET row == geo_echoes[LastEcho(p)]
       IN  /\ mod_request[p].content =
                IF row.content \notin {Null, ""} THEN row.content
                ELSE IF row.title \notin {Null, ""} THEN row.title
                ELSE ""
           /\ row.content_type = Null => mod_request[p].content_type = "text"
           /\ row.content_type \notin {Null, ""} =>
                mod_request[p].content_type = row.content_type

\* C14, witness: a row with a title, an empty content and no content_type
\* has been sent to the moderation client.
C14_Witness ==
  \E p \in Procs :
    /\ pc[p] = "loop"
    /\ idx[p] > 1
    /\ ~skip_moderation[p]
    /\ geo_echoes[LastEcho(p)].title = "A title"
    /\ geo_echoes[LastEcho(p)].content = ""
    /\ geo_echoes[LastEcho(p)].content_type = Null
    /\ mod_request[p].content = "A title"
    /\ mod_request[p].content_type = "text"

\* C15: once a row's arweave_tx_id is set, no step of any run, a run that
\* selected the row before that write included, changes the row again.
C15_UploadedRowNeverRewritten ==
  [][\A e \in EchoIds :
       geo_echoes[e].arweave_tx_id # NoTx => geo_echoes'[e] = geo_echoes[e]]_vars

\* The three shapes of a row with respect to the pipeline.
Untouched(row) ==
  /\ row.arweave_tx_id = NoTx
  /\ row.arweave_uploaded_at = Null
  /\ row.moderation_status = Null
  /\ row.moderation_reason = Null

CompletelyFlagged(row) ==
  /\ row.moderation_status = "flagged"
  /\ ~row.is_permanent

CompletelyUploaded(row) ==
  /\ row.arweave_tx_id # NoTx
  /\ row.arweave_uploaded_at # Null
  /\ row.moderation_status = "approved"

\* C16 (as stated): whenever invocations crash, every row is untouched,
\* completely flagged or completely uploaded, and the invocation that
\* selects next after a crash selects no completed row and selects every
\* untouched row of the crashed batch again.
C16_CrashRecovery ==
  /\ [](\A e \in EchoIds : \/ Untouched(geo_echoes[e])
                           \/ CompletelyFlagged(geo_echoes[e])
                           \/ CompletelyUploaded(geo_echoes[e]))
  /\ [][\A q \in Procs :
          (pc[q] = "idle" /\ pc'[q] = "loop" /\ last_crash.fresh
             /\ last_crash.next = "none") =>
            /\ \A e \in EchoIds :
                 (CompletelyFlagged(geo_echoes[e]) \/ CompletelyUploaded(geo_echoes[e]))
                    => e \notin Range(echoes'[q])
            /\ \A e \in last_crash.batch :
                 Untouched(geo_echoes[e]) => e \in Range(echoes'[q])
     ]_vars

\* C16 (amended): the same, for a next invocation that selects with the
\* priority_only of the crashed one.
C16_CrashRecoverySameSelection ==
  /\ [](\A e \in EchoIds : \/ Untouched(geo_echoes[e])
                           \/ CompletelyFlagged(geo_echoes[e])
                           \/ CompletelyUploaded(geo_echoes[e]))
  /\ [][\A q \in Procs :
          (pc[q] = "idle" /\ pc'[q] = "loop" /\ last_crash.fresh
             /\ last_crash.next = "none") =>
            /\ \A e \in EchoIds :
                 (CompletelyFlagged(geo_echoes[e]) \/ CompletelyUploaded(geo_echoes[e]))
                    => e \notin Range(echoes'[q])
            /\ priority_only'[q] = last_crash.priority_only =>
                 \A e \in last_crash.batch :
                   Untouched(geo_echoes[e]) => e \in Range(echoes'[q])
     ]_vars

\* C16, witness: after a crash in mid-batch the next invocation has selected:
\* one row of the crashed batch is completed, another is untouched and is in
\* the new batch.
C16_Witness ==
  \E q \in Procs :
    /\ last_crash.fresh
    /\ last_crash.next = q
    /\ pc[q] = "loop"
    /\ priority_only[q] = last_crash.priority_only
    /\ \E e1, e2 \in last_crash.batch :
         /\ CompletelyFlagged(geo_echoes[e1]) \/ CompletelyUploaded(geo_echoes[e1])
         /\ e1 \notin Range(echoes[q])
         /\ Untouched(geo_echoes[e2])
         /\ e2 \in Range(echoes[q])

\* Row e is waiting for the unrestricted selection.
Pending(e) == IsCandidate(geo_echoes[e], FALSE)

\* Some run has handled row e of its batch.
Handled(e) ==
  \E p \in Procs : \E i \in 1..Len(echoes[p]) : i < idx[p] /\ echoes[p][i] = e

\* The candidates older than row e.
OlderPending(e) == {o \in EchoIds : o < e /\ Pending(o)}

\* C17 (as stated): under repeated invocations every row that is a candidate
\* is eventually handled by some run (or stops being a candidate), whatever
\* happens to older rows.
C17_NoStarvation ==
  \A e \in EchoIds : Pending(e) ~> (Handled(e) \/ ~Pending(e))

\* C17 (amended): under repeated invocations every candidate with fewer
\* older candidates than the LIMIT is eventually handled by some run.
C17_HeadOfQueueIsServed ==
  \A e \in EchoIds :
    (Pending(e) /\ Cardinality(OlderPending(e)) < BatchLimit)
       ~> (Handled(e) \/ ~Pending(e))

\* C17, witness: a row that the first selection left out for the LIMIT has
\* got its terminal write in a later run, while an older row is still
\* pending.
C17_Witness ==
  \E e \in EchoIds :
    /\ e > BatchLimit
    /\ \A o \in 1..BatchLimit :
         geo_echoes[o].is_active /\ (geo_echoes[o].is_permanent \/ o \in terminal)
    /\ \E p \in Procs : writes[p][e] = 1
    /\ OlderPending(e) # {}

\* C18: two uploads of the same unchanged row, by whichever instances, with
\* the same answer of the storage side, obtain the same identifier.
C18_SameRecordSameIdentifier ==
  \A p, q \in Procs :
    ( /\ tx_id[p] # NoTx
      /\ tx_id[q] # NoTx
      /\ tx_id[p].echo = tx_id[q].echo
      /\ put_outcome[p] = put_outcome[q] ) => tx_id[p] = tx_id[q]

\* The place of an event in the handling of one record.
Rank(ev) == CASE ev = "moderate" -> 1 [] ev = "put" -> 2 [] OTHER -> 3

C20_OutputLists ==
  \A p \in Procs :
    response[p].kind \in {"summary", "test"} =>
       LET body == response[p].body
       IN  /\ Len(body.tx_ids) = body.uploaded
           /\ \A k \in 1..Len(body.tx_ids) :
                /\ body.tx_ids[k].echo \in EchoIds
                /\ writes[p][body.tx_ids[k].echo] = 1
           /\ skip_moderation[p] => body.moderation_results = <<>>

\* C20 (amended): in the summary of every run over the table, tx_ids holds
\* one identifier per uploaded record, each written by this run to that
\* record, in batch order; an iteration appends to tx_ids exactly when it
\* commits the upload UPDATE, and what it appends is the identifier it wrote;
\* it appends to moderation_results exactly when the moderation client
\* returned a verdict (the service's object or the fail-closed one), and
\* what it appends is that verdict for that record; under skip_moderation
\* moderation_results stays empty.  In test mode tx_ids holds one
\* identifier that is written to no row.
C20_ProductionOutputLists ==
  /\ [](\A p \in Procs :
          /\ response[p].kind = "summary" =>
               LET body == response[p].body
               IN  /\ Len(body.tx_ids) = body.uploaded
                   /\ \A k \in 1..Len(body.tx_ids) :
                        /\ body.tx_ids[k].echo \in EchoIds
                        /\ writes[p][body.tx_ids[k].echo] = 1
                        /\ trigger = "sequential" =>
                             geo_echoes[body.tx_ids[k].echo].arweave_tx_id
                               = body.tx_ids[k]
                   /\ \A j, k \in 1..Len(body.tx_ids) :
                        j < k => body.tx_ids[j].echo < body.tx_ids[k].echo
                   /\ skip_moderation[p] => body.moderation_results = <<>>
          /\ response[p].kind = "test" =>
               /\ Len(response[p].body.tx_ids) = 1
               /\ response[p].body.tx_ids[1].echo \notin EchoIds
               /\ response[p].body.moderation_results = <<>>)
  /\ [][\A p \in Procs :
          (pc[p] = "loop" /\ pc'[p] = "loop" /\ idx'[p] # idx[p]) =>
            LET e == echoes[p][idx[p]]
                uploadedNow == /\ writes'[p][e] = writes[p][e] + 1
                               /\ geo_echoes'[e].moderation_status = "approved"
                               /\ geo_echoes'[e].arweave_tx_id = tx_id'[p]
                verdict == /\ ~skip_moderation[p]
                           /\ agent_reply'[p].shape \in {"raise", "dict"}
            IN  /\ results'[p].tx_ids =
                     IF uploadedNow THEN Append(results[p].tx_ids, tx_id'[p])
                                    ELSE results[p].tx_ids
                /\ uploadedNow <=> results'[p].uploaded = results[p].uploaded + 1
                /\ results'[p].moderation_results =
                     IF verdict
                       THEN Append(results[p].moderation_results,
                                   [echo_id |-> e,
                                    is_safe |-> mod_result'[p].is_safe,
                                    status |-> mod_result'[p].moderation_status,
                                    model |-> mod_result'[p].model_used])
                       ELSE results[p].moderation_results
     ]_vars

\* C20, witness: a run has returned a summary with two identifiers and two
\* verdicts.
C20_Witness ==
  \E p \in Procs :
    /\ response[p].kind = "summary"
    /\ Len(response[p].body.tx_ids) = 2
    /\ Len(response[p].body.moderation_results) = 2

====
